---- MODULE Spec2Model ----
(***************************************************************************)
(* Model of minimum-nextjs: JWT request authentication                     *)
(* (src/lib/server/authentication.ts) and the flash-message cookie         *)
(* (src/utilities/index.ts, src/pages/index.tsx).                          *)
(*                                                                         *)
(* JavaScript values are tagged records: [t |-> "undefined"],              *)
(* [t |-> "null"], [t |-> "boolean", b |-> ..], [t |-> "string", s |-> ..].*)
(* A string of the authentication part is a sequence of atoms: a blank     *)
(* [ch |-> " "], a tab, a word [w |-> ..] (a run of non-blank characters)  *)
(* or a JSON Web Token [jwt |-> ..] (one run of non-blank characters that  *)
(* jsonwebtoken can decode).  A string of the flash part is a sequence of  *)
(* one-character strings.  Time is in whole seconds, the unit of the       *)
(* iat/nbf/exp claims.                                                     *)
(***************************************************************************)
EXTENDS Integers, Sequences, FiniteSets, TLC

VARIABLES now, issued, call, jar, reqs, trail, shown, overlapped,
          env, proc, carrier, unit

authVars == <<now, issued, call>>

flashVars == <<jar, reqs, trail, shown, overlapped>>

(* The process: its configuration and whether it runs. *)
hostVars == <<env, proc>>

(* A carrier (req, res) that clearAuthContext and getAuthContext work on. *)
logoutVars == <<carrier>>

(* The last call of a helper of src/utilities/index.ts. *)
unitVars == <<unit>>

vars == <<now, issued, call, jar, reqs, trail, shown, overlapped,
          env, proc, carrier, unit>>

---------------------------------------------------------------------------
(* Bounds of the model. *)

MaxTime == 3

MaxIssued == 1

---------------------------------------------------------------------------
(* JavaScript values. *)

Undefined == [t |-> "undefined"]

Null == [t |-> "null"]

Bool(b) == [t |-> "boolean", b |-> b]

Str(s) == [t |-> "string", s |-> s]

IsString(v) == v.t = "string"

(* JavaScript truthiness of the values used here. *)
Truthy(v) ==
  CASE v.t = "string" -> v.s # <<>>
    [] v.t = "boolean" -> v.b
    [] OTHER -> FALSE

SP == [ch |-> " "]

TAB == [ch |-> "\t"]

Word(w) == [w |-> w]

JwtAtom(tok) == [jwt |-> tok]

IsBlank(a) == a \in {SP, TAB}

---------------------------------------------------------------------------
(* Constants of src/constants.ts and the process configuration. *)

ERROR_1001 == "E1001"

ERROR_1002 == "E1002"

ERROR_1003 == "E1003"

JWT_AUDIENCE == {"minimum", "web"}

JWT_HMAC_KEY == "k1"

JWT_ISSUER == "example.com"

(* JWT_TTL_ACCESS, as the number of seconds jsonwebtoken adds to iat. *)
JWT_TTL_ACCESS == 2

---------------------------------------------------------------------------
(* String helpers (ECMAScript String.prototype.trim / split). *)

RECURSIVE TrimStart(_)
TrimStart(s) ==
  IF s # <<>> /\ IsBlank(Head(s)) THEN TrimStart(Tail(s)) ELSE s

RECURSIVE TrimEnd(_)
TrimEnd(s) ==
  IF s # <<>> /\ IsBlank(s[Len(s)]) THEN TrimEnd(SubSeq(s, 1, Len(s) - 1)) ELSE s

Trim(s) == TrimEnd(TrimStart(s))

StartsWith(s, sep) ==
  Len(s) >= Len(sep) /\ SubSeq(s, 1, Len(sep)) = sep

(* s.split(sep) for a non-empty separator: the segments between the
   leftmost, non-overlapping occurrences of sep; cur is the segment being
   read. *)
RECURSIVE SplitFrom(_, _, _)
SplitFrom(s, sep, cur) ==
  IF s = <<>> THEN <<cur>>
  ELSE IF StartsWith(s, sep)
       THEN <<cur>> \o SplitFrom(SubSeq(s, Len(sep) + 1, Len(s)), sep, <<>>)
       ELSE SplitFrom(Tail(s), sep, Append(cur, Head(s)))

Split(s, sep) == SplitFrom(s, sep, <<>>)

(* The letter case folding of the regular expression flag i, on the words
   the model uses. *)
Lower(w) ==
  IF w \in {"bearer", "Bearer", "BEARER"} THEN "bearer" ELSE w

---------------------------------------------------------------------------
(* extractJwt: null unless the header starts with "bearer " in any letter
   case; then the second element of bearer.trim().split(' '). *)

ReTestBearer(s) ==
  /\ Len(s) >= 2
  /\ "w" \in DOMAIN s[1]
  /\ Lower(s[1].w) = "bearer"
  /\ s[2] = SP

ExtractJwt(bearer) ==
  IF ~Truthy(bearer) \/ ~ReTestBearer(bearer.s)
  THEN Null
  ELSE LET parts == Split(Trim(bearer.s), <<SP>>)
           jwt == IF Len(parts) >= 2 THEN Str(parts[2]) ELSE Undefined
       IN IF Truthy(jwt) THEN jwt ELSE Null

---------------------------------------------------------------------------
(* Tokens.  A token is [key, ptype, claims]: the key it was signed with,
   the type of its payload and the registered and private claims. *)

Token(key, claims) == [key |-> key, ptype |-> "object", claims |-> claims]

(* makeJwt: jwt.sign({name, sub}, JWT_HMAC_KEY, {audience, issuer,
   expiresIn, notBefore: 0}) at time clock. *)
MakeJwt(sub, name, clock) ==
  Token(JWT_HMAC_KEY,
        [name |-> name, sub |-> sub, iat |-> clock, nbf |-> clock + 0,
         exp |-> clock + JWT_TTL_ACCESS, aud |-> JWT_AUDIENCE,
         iss |-> JWT_ISSUER])

Resolved(v) == [ok |-> TRUE, value |-> v]

Rejected(name, message) == [ok |-> FALSE, name |-> name, message |-> message]

(* jwt.verify that looks at exp before it checks the signature. *)
JwtVerifyExpiryFirst(jot, clock) ==
  IF ~(Len(jot) = 1 /\ "jwt" \in DOMAIN jot[1])
  THEN Rejected("JsonWebTokenError", "jwt malformed")
  ELSE LET tok == jot[1].jwt
           c == tok.claims
       IN IF "exp" \in DOMAIN c /\ clock >= c.exp
          THEN Rejected("TokenExpiredError", "jwt expired")
          ELSE IF tok.key # JWT_HMAC_KEY
          THEN Rejected("JsonWebTokenError", "invalid signature")
          ELSE IF "nbf" \in DOMAIN c /\ c.nbf > clock
          THEN Rejected("NotBeforeError", "jwt not active")
          ELSE IF ~("aud" \in DOMAIN c /\ c.aud \cap JWT_AUDIENCE # {})
          THEN Rejected("JsonWebTokenError", "jwt audience invalid")
          ELSE IF ~("iss" \in DOMAIN c /\ c.iss = JWT_ISSUER)
          THEN Rejected("JsonWebTokenError", "jwt issuer invalid")
          ELSE Resolved([ptype |-> tok.ptype, payload |-> c])

(* jwt.verify that reports a token as expired in the second of its exp
   only. *)
JwtVerifyExpiryInstant(jot, clock) ==
  IF ~(Len(jot) = 1 /\ "jwt" \in DOMAIN jot[1])
  THEN Rejected("JsonWebTokenError", "jwt malformed")
  ELSE LET tok == jot[1].jwt
           c == tok.claims
       IN IF tok.key # JWT_HMAC_KEY
          THEN Rejected("JsonWebTokenError", "invalid signature")
          ELSE IF "nbf" \in DOMAIN c /\ c.nbf > clock
          THEN Rejected("NotBeforeError", "jwt not active")
          ELSE IF "exp" \in DOMAIN c /\ clock = c.exp
          THEN Rejected("TokenExpiredError", "jwt expired")
          ELSE IF ~("aud" \in DOMAIN c /\ c.aud \cap JWT_AUDIENCE # {})
          THEN Rejected("JsonWebTokenError", "jwt audience invalid")
          ELSE IF ~("iss" \in DOMAIN c /\ c.iss = JWT_ISSUER)
          THEN Rejected("JsonWebTokenError", "jwt issuer invalid")
          ELSE Resolved([ptype |-> tok.ptype, payload |-> c])

(* jwt.verify(jot, JWT_HMAC_KEY, {audience, issuer, complete: true}) at time
   clock, in the order jsonwebtoken checks: the token decodes, the signature,
   nbf, exp, the audience, the issuer. *)
JwtVerify(jot, clock) ==
  IF ~(Len(jot) = 1 /\ "jwt" \in DOMAIN jot[1])
  THEN Rejected("JsonWebTokenError", "jwt malformed")
  ELSE LET tok == jot[1].jwt
           c == tok.claims
       IN IF tok.key # JWT_HMAC_KEY
          THEN Rejected("JsonWebTokenError", "invalid signature")
          ELSE IF "nbf" \in DOMAIN c /\ c.nbf > clock
          THEN Rejected("NotBeforeError", "jwt not active")
          ELSE IF "exp" \in DOMAIN c /\ clock >= c.exp
          THEN Rejected("TokenExpiredError", "jwt expired")
          ELSE IF ~("aud" \in DOMAIN c /\ c.aud \cap JWT_AUDIENCE # {})
          THEN Rejected("JsonWebTokenError", "jwt audience invalid")
          ELSE IF ~("iss" \in DOMAIN c /\ c.iss = JWT_ISSUER)
          THEN Rejected("JsonWebTokenError", "jwt issuer invalid")
          ELSE Resolved([ptype |-> tok.ptype, payload |-> c])

(* verifyJwt: the promise settles as jwt.verify's callback says. *)
VerifyJwt(jot, clock) == JwtVerify(jot, clock)

(* err instanceof TokenExpiredError *)
IsTokenExpiredError(name) == name = "TokenExpiredError"

(* err instanceof UnauthenticatedError *)
IsUnauthenticatedError(name) == name = "UnauthenticatedError"

---------------------------------------------------------------------------
(* getAuthContext.  req is [cookie, authorization]: what getCookie returns
   for COOKIE_AUTH_USER and the value of req.headers.authorization.  mode is
   "" (not given), "cookie" or "header".  fault says that a collaborator
   (cookie parsing, logging) throws an Error of its own in the call.
   The result is [ok, name, message, verified, ctx]: verified is the
   credential handed to verifyJwt, undefined when it was not called. *)

Thrown(name, message, verified) ==
  [ok |-> FALSE, name |-> name, message |-> message, verified |-> verified,
   ctx |-> Undefined]

Returned(ctx, verified) ==
  [ok |-> TRUE, name |-> "", message |-> "", verified |-> verified,
   ctx |-> ctx]

(* CookieStep that reads the cookie only when mode is 'cookie'. *)
CookieStepModeOnly(req, mode) ==
  IF mode = "cookie"
  THEN [jot |-> req.cookie,
        authenticated |-> IsString(req.cookie) /\ Truthy(req.cookie)]
  ELSE [jot |-> Undefined, authenticated |-> FALSE]

(* Lines 103-112: the cookie is read when mode is not given or 'cookie'. *)
CookieStep(req, mode) ==
  IF mode \in {"", "cookie"}
  THEN [jot |-> req.cookie,
        authenticated |-> IsString(req.cookie) /\ Truthy(req.cookie)]
  ELSE [jot |-> Undefined, authenticated |-> FALSE]

(* HeaderStep that falls back to the header whatever mode says. *)
HeaderStepAnyMode(req, mode, st) ==
  IF ~st.authenticated
  THEN LET jot == ExtractJwt(req.authorization)
       IN [jot |-> jot,
           authenticated |-> IF Truthy(jot) THEN TRUE ELSE st.authenticated]
  ELSE st

(* HeaderStep that takes the bearer token of the header, when there is one,
   over the cookie. *)
HeaderStepPreferring(req, mode, st) ==
  IF mode \in {"", "header"}
  THEN LET jot == ExtractJwt(req.authorization)
       IN IF Truthy(jot) THEN [jot |-> jot, authenticated |-> TRUE] ELSE st
  ELSE st

(* Lines 114-123: the header is read when nothing was found and mode is not
   given or 'header'. *)
HeaderStep(req, mode, st) ==
  IF ~st.authenticated /\ mode \in {"", "header"}
  THEN LET jot == ExtractJwt(req.authorization)
       IN [jot |-> jot,
           authenticated |-> IF Truthy(jot) THEN TRUE ELSE st.authenticated]
  ELSE st

(* VerifyFailure that masks every rejection, expiry included. *)
VerifyFailureMasked(v, jot) ==
  Thrown("UnauthenticatedError", "JWT verification failed", jot)

(* Lines 129-143: the outcome of a rejected verification. *)
VerifyFailure(v, jot) ==
  IF IsTokenExpiredError(v.name)
  THEN Thrown(v.name, v.message, jot)
  ELSE Thrown("UnauthenticatedError", "JWT verification failed", jot)

(* DecodeStep that takes the id from the name claim and the name from the
   sub claim. *)
DecodeStepSwapped(decoded, jot) ==
  IF decoded.ptype = "string"
  THEN Thrown("UnauthenticatedError", "JWT decoding failed", jot)
  ELSE Returned([id |-> IF "name" \in DOMAIN decoded.payload
                        THEN decoded.payload.name ELSE "",
                 name |-> IF "sub" \in DOMAIN decoded.payload
                          THEN decoded.payload.sub ELSE ""],
                jot)

(* Lines 145-154: the outcome of a successful verification. *)
DecodeStep(decoded, jot) ==
  IF decoded.ptype = "string"
  THEN Thrown("UnauthenticatedError", "JWT decoding failed", jot)
  ELSE Returned([id |-> IF "sub" \in DOMAIN decoded.payload
                        THEN decoded.payload.sub ELSE "",
                 name |-> IF "name" \in DOMAIN decoded.payload
                          THEN decoded.payload.name ELSE ""],
                jot)

GetAuthContext(req, mode, clock, fault) ==
  IF fault THEN Thrown("Error", "collaborator failure", Undefined)
  ELSE
  LET st == HeaderStep(req, mode, CookieStep(req, mode))
  IN IF ~IsString(st.jot) \/ ~st.authenticated
     THEN Thrown("UnauthenticatedError", "JWT not found", Undefined)
     ELSE LET v == VerifyJwt(st.jot.s, clock)
          IN IF ~v.ok
             THEN VerifyFailure(v, st.jot)
             ELSE DecodeStep(v.value, st.jot)

---------------------------------------------------------------------------
(* withAuthHandler.  hb is what the wrapped handler does when called:
   "resolves", "rejects" (its promise rejects) or "throws <Name>" (it throws
   before returning a promise).  The outcome is [invoked, status, code,
   escaped]: status 0 and code "" when the wrapper writes no response,
   escaped the failure that leaves the wrapper ("" when none). *)

HandlerBehaviours ==
  {"resolves", "rejects", "throws Error", "throws UnauthenticatedError",
   "throws TokenExpiredError"}

ThrownName(hb) ==
  CASE hb = "throws Error" -> "Error"
    [] hb = "throws UnauthenticatedError" -> "UnauthenticatedError"
    [] hb = "throws TokenExpiredError" -> "TokenExpiredError"
    [] OTHER -> ""

(* Lines 242-267: the catch block. *)
CatchBlock(name) ==
  LET r == IF IsTokenExpiredError(name)
           THEN [status |-> 403, code |-> ERROR_1003]
           ELSE IF IsUnauthenticatedError(name)
           THEN [status |-> 401, code |-> ERROR_1002]
           ELSE [status |-> 500, code |-> ERROR_1001]
  IN r

(* Lines 238-267, after `await getAuthContext(req, res, mode)` has settled
   as auth: `return handler(req, res)` inside the try block, or the catch
   block. *)
AfterAuth(auth, hb) ==
  IF ~auth.ok
  THEN LET r == CatchBlock(auth.name)
       IN [invoked |-> FALSE, status |-> r.status, code |-> r.code,
           escaped |-> ""]
  ELSE IF ThrownName(hb) # ""
  THEN LET r == CatchBlock(ThrownName(hb))
       IN [invoked |-> TRUE, status |-> r.status, code |-> r.code,
           escaped |-> ""]
  ELSE [invoked |-> TRUE, status |-> 0, code |-> "",
        escaped |-> IF hb = "rejects" THEN "rejection" ELSE ""]

---------------------------------------------------------------------------
(* The inputs of the authentication part. *)

Subjects == {"u1", ""}

Names == {"Alice", ""}

Modes == {"", "cookie", "header"}

FarFuture == MaxTime + 10

ValidClaims(exp) ==
  [name |-> "Mallory", sub |-> "u9", iat |-> 0, nbf |-> 0, exp |-> exp,
   aud |-> JWT_AUDIENCE, iss |-> JWT_ISSUER]

(* Tokens that makeJwt did not sign: a wrong key (one that expires early, one
   that does not), a wrong issuer, a disjoint audience, a token that is not
   valid yet, a token of the right key that carries no sub and no name, and
   one whose payload is a string. *)
WrongKeyToken(exp) == Token("k2", ValidClaims(exp))

WrongIssuerToken == Token(JWT_HMAC_KEY, [ValidClaims(2) EXCEPT !.iss = "evil.example"])

DisjointAudienceToken == Token(JWT_HMAC_KEY, [ValidClaims(2) EXCEPT !.aud = {"other"}])

NotYetValidToken == Token(JWT_HMAC_KEY, [ValidClaims(FarFuture) EXCEPT !.nbf = 2])

AnonymousToken ==
  Token(JWT_HMAC_KEY, [iat |-> 0, aud |-> {"web", "other"}, iss |-> JWT_ISSUER])

(* A token of the right key whose payload is a string, not an object: it
   carries no claims. *)
StringPayloadToken ==
  [key |-> JWT_HMAC_KEY, ptype |-> "string", claims |-> [c \in {} |-> c]]

ForeignTokens ==
  {WrongKeyToken(1), WrongKeyToken(FarFuture), WrongIssuerToken,
   DisjointAudienceToken, NotYetValidToken, AnonymousToken,
   StringPayloadToken}

JwtString(tok) == Str(<<JwtAtom(tok)>>)

(* What getCookie can return for the auth cookie. *)
CookieValues(tokens) ==
  {Undefined, Bool(TRUE), Str(<<>>), Str(<<Word("garbage")>>)}
    \cup {JwtString(tok) : tok \in tokens}

(* Values of the Authorization header. *)
HeaderValues(tokens) ==
  {Undefined, Str(<<Word("Basic"), SP, Word("dXNlcg")>>)}
    \cup {Str(<<Word("Bearer"), SP, JwtAtom(tok)>>) : tok \in tokens}
    \cup {Str(<<Word("BEARER"), SP, JwtAtom(tok), SP>>) : tok \in tokens}
    \cup {Str(<<Word("bearer"), SP, SP, JwtAtom(tok)>>) : tok \in tokens}

---------------------------------------------------------------------------
(* The flash message: src/utilities/index.ts and src/types.ts.  A string is
   a sequence of one-character strings. *)

MaxReq == 2

SEP == <<"|", "|">>

ALERT_VARIANTS ==
  { <<"p", "r", "i", "m", "a", "r", "y">>,
    <<"s", "e", "c", "o", "n", "d", "a", "r", "y">>,
    <<"s", "u", "c", "c", "e", "s", "s">>,
    <<"d", "a", "n", "g", "e", "r">>,
    <<"w", "a", "r", "n", "i", "n", "g">>,
    <<"i", "n", "f", "o">>,
    <<"l", "i", "g", "h", "t">>,
    <<"d", "a", "r", "k">> }

PRIMARY == <<"p", "r", "i", "m", "a", "r", "y">>

INFO == <<"i", "n", "f", "o">>

DANGER == <<"d", "a", "n", "g", "e", "r">>

(* isAlertVariant *)
IsAlertVariant(s) == s \in ALERT_VARIANTS

(* makeFlashMesage(message, variant = 'info'): variant is a string value or
   undefined. *)
MakeFlashMesage(message, variant) ==
  message \o SEP \o (IF variant = Undefined THEN INFO ELSE variant.s)

FlashMessage(message, variant) == [message |-> message, variant |-> variant]

(* parseFlashString that takes the variant from the second segment. *)
ParseFlashStringSecond(value) ==
  LET parts == Split(value, SEP)
      message == parts[1]
  IN IF Len(parts) < 2 THEN FlashMessage(message, PRIMARY)
     ELSE LET v == parts[2]
          IN IF ~IsAlertVariant(v) THEN FlashMessage(message, PRIMARY)
             ELSE FlashMessage(message, v)

(* parseFlashString: parts[0] || '' is parts[0], and parts[parts.length - 1]
   || '' is the last segment, since both are strings. *)
ParseFlashString(value) ==
  LET parts == Split(value, SEP)
      message == parts[1]
  IN IF Len(parts) < 2 THEN FlashMessage(message, PRIMARY)
     ELSE LET v == parts[Len(parts)]
          IN IF ~IsAlertVariant(v) THEN FlashMessage(message, PRIMARY)
             ELSE FlashMessage(message, v)

(* getFlashCookie that returns null before it deletes the cookie. *)
GetFlashCookieDeleteLate(flash) ==
  [ret |-> IF ~IsString(flash) THEN Null ELSE ParseFlashString(flash.s),
   cookie |-> IF ~IsString(flash) THEN flash ELSE Undefined]

(* getFlashCookie that does not delete the cookie. *)
GetFlashCookieKeeping(flash) ==
  [ret |-> IF ~IsString(flash) THEN Null ELSE ParseFlashString(flash.s),
   cookie |-> flash]

(* getFlashCookie on a carrier whose flash cookie reads as flash: the value
   returned and the cookie the carrier holds afterwards (deleteCookie comes
   before the typeof test). *)
GetFlashCookie(flash) ==
  [ret |-> IF ~IsString(flash) THEN Null ELSE ParseFlashString(flash.s),
   cookie |-> Undefined]

(* setFlashCookie(message, variant): the value setCookie stores. *)
SetFlashCookie(message, variant) == Str(MakeFlashMesage(message, variant))

(* The inputs of the flash part. *)
FlashMessages == { <<"a">>, <<"a", "|">> }

FlashVariants == {Undefined, Str(DANGER)}

(* Cookie values that did not come from setFlashCookie: a value getCookie
   returns as a boolean, a string with no delimiter, a string whose last
   segment is no variant. *)
RawFlashValues ==
  {Bool(TRUE), Str(<<"a">>), Str(<<"a", "|", "|", "z">>)}

Pairs == 1..MaxReq

NoCall == [op |-> "none"]

SetCall(message, variant) ==
  [op |-> "set", message |-> message,
   variant |-> IF variant = Undefined THEN INFO ELSE variant.s]

GetCall(read, ret) == [op |-> "get", read |-> read, ret |-> ret]

(* The state of the flash part.  jar is the flash cookie the browser holds
   (the carrier of calls without req and res).  reqs[r] is a request/response
   pair of the server: its stage, the flash cookie req.cookies holds, and the
   effect on the browser of the Set-Cookie headers res carries for the flash
   cookie ("none", "delete" or "set" with the value; of several headers the
   browser keeps the effect of the last).  trail[r] holds the last two calls
   made on pair r while it is served, shown counts the calls of
   getFlashCookie in the serving of a request that returned an entry
   setFlashCookie wrote, since a cookie value was last written, and
   overlapped says that a request was sent while another was being
   served. *)
IdlePair == [stage |-> "idle"]

InitFlash ==
  /\ jar = Undefined
  /\ reqs = [r \in Pairs |-> IdlePair]
  /\ trail = [r \in Pairs |-> [last |-> NoCall, prev |-> NoCall]]
  /\ shown = 0
  /\ overlapped = FALSE

(* Of the call before a getFlashCookie the trail keeps what it was: a
   setFlashCookie with its arguments, or a getFlashCookie. *)
Before(callrec) == IF callrec.op = "get" THEN [op |-> "get"] ELSE callrec

Record(c, callrec) ==
  [trail EXCEPT ![c] =
     [last |-> callrec,
      prev |-> IF callrec.op = "get" THEN Before(trail[c].last) ELSE NoCall]]

WrittenValues ==
  {SetFlashCookie(message, variant) :
     message \in FlashMessages, variant \in FlashVariants}

Count(read, ret) ==
  IF ret # Null /\ read \in WrittenValues THEN shown + 1 ELSE shown

(* The browser, or another program, stores a value in the flash cookie. *)
ClientStoresCookie ==
  /\ \E v \in RawFlashValues : jar' = v
  /\ shown' = 0
  /\ UNCHANGED <<reqs, trail, overlapped>>
  /\ UNCHANGED <<authVars, hostVars, logoutVars, unitVars>>

(* setFlashCookie(message, variant) in the browser. *)
ClientSetFlashCookie ==
  /\ \E message \in FlashMessages, variant \in FlashVariants :
       jar' = SetFlashCookie(message, variant)
  /\ shown' = 0
  /\ UNCHANGED <<reqs, trail, overlapped>>
  /\ UNCHANGED <<authVars, hostVars, logoutVars, unitVars>>

(* getFlashCookie() in the browser. *)
ClientGetFlashCookie ==
  /\ LET g == GetFlashCookie(jar)
     IN jar' = g.cookie
  /\ UNCHANGED <<reqs, trail, shown, overlapped>>
  /\ UNCHANGED <<authVars, hostVars, logoutVars, unitVars>>

(* The browser sends a request: it carries the cookie the browser holds. *)
SendRequest(r) ==
  /\ reqs[r].stage = "idle"
  /\ reqs' = [reqs EXCEPT ![r] =
                [stage |-> "serving", cookie |-> jar, effect |-> [op |-> "none"]]]
  /\ overlapped' = (overlapped \/ \E q \in Pairs : reqs[q].stage = "serving")
  /\ UNCHANGED <<jar, trail, shown>>
  /\ UNCHANGED <<authVars, hostVars, logoutVars, unitVars>>

(* setFlashCookie(message, variant, req, res) while request r is served. *)
ServerSetFlashCookie(r) ==
  /\ reqs[r].stage = "serving"
  /\ \E message \in FlashMessages, variant \in FlashVariants :
       LET m == SetFlashCookie(message, variant)
       IN /\ reqs' = [reqs EXCEPT ![r].cookie = m,
                                  ![r].effect = [op |-> "set", value |-> m]]
          /\ trail' = Record(r, SetCall(message, variant))
  /\ shown' = 0
  /\ UNCHANGED <<jar, overlapped>>
  /\ UNCHANGED <<authVars, hostVars, logoutVars, unitVars>>

(* getFlashCookie(req, res) while request r is served, as getServerSideProps
   of src/pages/index.tsx calls it. *)
ServerGetFlashCookie(r) ==
  /\ reqs[r].stage = "serving"
  /\ LET g == GetFlashCookie(reqs[r].cookie)
     IN /\ reqs' = [reqs EXCEPT ![r].cookie = g.cookie,
                                ![r].effect = [op |-> "delete"]]
        /\ trail' = Record(r, GetCall(reqs[r].cookie, g.ret))
        /\ shown' = Count(reqs[r].cookie, g.ret)
  /\ UNCHANGED <<jar, overlapped>>
  /\ UNCHANGED <<authVars, hostVars, logoutVars, unitVars>>

(* The response of request r reaches the browser, which applies its
   Set-Cookie headers. *)
Respond(r) ==
  /\ reqs[r].stage = "serving"
  /\ jar' = CASE reqs[r].effect.op = "set" -> reqs[r].effect.value
              [] reqs[r].effect.op = "delete" -> Undefined
              [] OTHER -> jar
  /\ reqs' = [reqs EXCEPT ![r] = IdlePair]
  /\ trail' = [trail EXCEPT ![r] = [last |-> NoCall, prev |-> NoCall]]
  /\ UNCHANGED <<shown, overlapped>>
  /\ UNCHANGED <<authVars, hostVars, logoutVars, unitVars>>

NextFlash ==
  \/ ClientStoresCookie
  \/ ClientSetFlashCookie
  \/ ClientGetFlashCookie
  \/ \E r \in Pairs : SendRequest(r)
  \/ \E r \in Pairs : ServerSetFlashCookie(r)
  \/ \E r \in Pairs : ServerGetFlashCookie(r)
  \/ \E r \in Pairs : Respond(r)

---------------------------------------------------------------------------
(* The state of the authentication part: the clock, the tokens makeJwt has
   signed, and the request being served by a function that withAuthHandler
   returned.  call.stage is "idle", "resolved" (getAuthContext has settled,
   the function resumes after its await) or "done" (the function has
   returned). *)

Idle == [stage |-> "idle"]

InitAuth ==
  /\ now = 0
  /\ issued = {}
  /\ call = Idle

(* A second passes. *)
Tick ==
  /\ now < MaxTime
  /\ now' = now + 1
  /\ UNCHANGED <<issued, call>>
  /\ UNCHANGED <<flashVars, hostVars, logoutVars, unitVars>>

(* makeJwt(sub, name) signs a token. *)
IssueToken ==
  /\ proc.state = "running"
  /\ Cardinality(issued) < MaxIssued
  /\ \E sub \in Subjects, name \in Names :
       issued' = issued \cup {MakeJwt(sub, name, now)}
  /\ UNCHANGED <<now, call>>
  /\ UNCHANGED <<flashVars, hostVars, logoutVars, unitVars>>

(* A request reaches the function withAuthHandler(handler, mode) returned,
   which runs to the point where getAuthContext(req, res, mode) settles. *)
ResolveRequest ==
  /\ proc.state = "running"
  /\ call.stage = "idle"
  /\ \E cookie \in CookieValues(issued \cup ForeignTokens),
        authorization \in HeaderValues(issued \cup {WrongIssuerToken}),
        mode \in Modes, fault \in BOOLEAN :
       LET req == [cookie |-> cookie, authorization |-> authorization]
       IN call' = [stage |-> "resolved", req |-> req, mode |-> mode,
                   fault |-> fault, at |-> now,
                   auth |-> GetAuthContext(req, mode, now, fault)]
  /\ UNCHANGED <<now, issued>>
  /\ UNCHANGED <<flashVars, hostVars, logoutVars, unitVars>>

(* The function resumes: the wrapped handler is called, or the catch block
   runs.  The handler behaves in some way only when it is called. *)
Dispatch ==
  /\ call.stage = "resolved"
  /\ \E hb \in (IF call.auth.ok THEN HandlerBehaviours ELSE {"not called"}) :
       call' = [stage |-> "done", req |-> call.req, mode |-> call.mode,
                fault |-> call.fault, at |-> call.at, auth |-> call.auth,
                hb |-> hb, out |-> AfterAuth(call.auth, hb)]
  /\ UNCHANGED <<now, issued>>
  /\ UNCHANGED <<flashVars, hostVars, logoutVars, unitVars>>

(* The response has left; the next request can come. *)
Complete ==
  /\ call.stage = "done"
  /\ call' = Idle
  /\ UNCHANGED <<now, issued>>
  /\ UNCHANGED <<flashVars, hostVars, logoutVars, unitVars>>

NextAuth == Tick \/ IssueToken \/ ResolveRequest \/ Dispatch \/ Complete

---------------------------------------------------------------------------
(* Calls of the helpers of src/utilities/index.ts on their own:
   makeFlashMesage, parseFlashString and extractJwt.  unit is the last
   call: its arguments and what it returned. *)

MaxLen == 3

MaxGap == 2

NoUnit == [fn |-> "none"]

InitUnit == unit = NoUnit

(* The messages: the strings over 'a' and '|' of at most MaxLen
   characters. *)
FlashTexts == UNION {[1..n -> {"a", "|"}] : n \in 0..MaxLen}

VariantArgs == {Undefined} \cup {Str(v) : v \in ALERT_VARIANTS}

(* What can follow the last separator of a stored string. *)
FlashTails == ALERT_VARIANTS \cup {<<>>, <<"z">>, <<"I", "n", "f", "o">>}

(* The strings parseFlashString is given. *)
FlashStrings ==
  FlashTexts
    \cup {m \o SEP \o t : m \in FlashTexts, t \in FlashTails}
    \cup {<<"a">> \o SEP \o mid \o SEP \o t :
            mid \in {<<"z">>, INFO}, t \in FlashTails}

(* No two words of a string of atoms touch: a word is a whole run of
   non-blank characters. *)
WellFormed(s) ==
  \A i \in 1..(Len(s) - 1) : IsBlank(s[i]) \/ IsBlank(s[i + 1])

Gaps == UNION {[1..n -> {SP, TAB}] : n \in 0..MaxGap}

(* The values of the Authorization header extractJwt is given. *)
BearerInputs ==
  {Undefined, Null, Str(<<>>)}
    \cup {Str(s) :
            s \in {y \in {pre \o <<Word(sch)>> \o gap \o tok \o post :
                            pre \in {<<>>, <<SP>>},
                            sch \in {"bearer", "Bearer", "BEARER", "Basic",
                                     "Bearertok"},
                            gap \in Gaps,
                            tok \in {<<>>, <<Word("tok")>>,
                                     <<Word("tok"), SP, Word("more")>>},
                            post \in {<<>>, <<SP>>}} : WellFormed(y)}}

CallMakeFlashMesage ==
  /\ \E message \in FlashTexts, variant \in VariantArgs :
       unit' = [fn |-> "makeFlashMesage", message |-> message,
                variant |-> variant, ret |-> MakeFlashMesage(message, variant)]
  /\ UNCHANGED <<authVars, flashVars, hostVars, logoutVars>>

CallParseFlashString ==
  /\ \E value \in FlashStrings :
       unit' = [fn |-> "parseFlashString", value |-> value, of |-> NoUnit,
                ret |-> ParseFlashString(value)]
  /\ UNCHANGED <<authVars, flashVars, hostVars, logoutVars>>

(* parseFlashString(makeFlashMesage(message, variant)) *)
ParseMadeFlashMesage ==
  /\ unit.fn = "makeFlashMesage"
  /\ unit' = [fn |-> "parseFlashString", value |-> unit.ret, of |-> unit,
              ret |-> ParseFlashString(unit.ret)]
  /\ UNCHANGED <<authVars, flashVars, hostVars, logoutVars>>

CallExtractJwt ==
  /\ \E bearer \in BearerInputs :
       unit' = [fn |-> "extractJwt", bearer |-> bearer,
                ret |-> ExtractJwt(bearer)]
  /\ UNCHANGED <<authVars, flashVars, hostVars, logoutVars>>

NextUnit ==
  CallMakeFlashMesage \/ CallParseFlashString \/ ParseMadeFlashMesage
    \/ CallExtractJwt

---------------------------------------------------------------------------
(* The process and its configuration.  env maps the names of the
   environment variables to their values: undefined when the variable is
   not set, a string otherwise.  proc is what the initialization of
   src/lib/server/logger.ts and then of src/lib/server/authentication.ts
   (which imports it) leaves: the process runs or has exited. *)

JwtSettings == {"JWT_AUDIENCE", "JWT_HMAC_KEY", "JWT_ISSUER", "JWT_TTL_ACCESS"}

LogSettings ==
  {"PINO_LOG_LEVEL", "PINO_LOG_DIR", "PINO_LOG_FILE", "PINO_ERROR_FILE"}

Settings == JwtSettings \cup LogSettings

(* .env.development, with a signing key. *)
ExampleEnv ==
  [JWT_AUDIENCE |-> Str(<<Word("minimum,web")>>),
   JWT_HMAC_KEY |-> Str(<<Word("k1")>>),
   JWT_ISSUER |-> Str(<<Word("example.com")>>),
   JWT_TTL_ACCESS |-> Str(<<Word("2s")>>),
   PINO_LOG_LEVEL |-> Str(<<Word("info")>>),
   PINO_LOG_DIR |-> Undefined,
   PINO_LOG_FILE |-> Str(<<Word("app.log")>>),
   PINO_ERROR_FILE |-> Str(<<Word("error.log")>>)]

(* The values of a variable of the authentication module: not set, set to
   the empty string, or as in ExampleEnv. *)
JwtValues(n) == {Undefined, Str(<<>>), ExampleEnv[n]}

(* The configurations.  The log level is also a word pino does not know;
   a path is set or not. *)
Envs ==
  [JWT_AUDIENCE : JwtValues("JWT_AUDIENCE"),
   JWT_HMAC_KEY : JwtValues("JWT_HMAC_KEY"),
   JWT_ISSUER : JwtValues("JWT_ISSUER"),
   JWT_TTL_ACCESS : JwtValues("JWT_TTL_ACCESS"),
   PINO_LOG_LEVEL : {Undefined, Str(<<>>), Str(<<Word("info")>>),
                     Str(<<Word("verbose")>>)},
   PINO_LOG_DIR : {Undefined, Str(<<Word("var")>>)},
   PINO_LOG_FILE : {Undefined, Str(<<Word("app.log")>>)},
   PINO_ERROR_FILE : {Undefined, Str(<<Word("error.log")>>)}]

(* _isPinoLevel *)
IsPinoLevel(level) ==
  level \in {<<Word(l)>> :
               l \in {"fatal", "error", "warn", "info", "debug", "trace"}}

Running(logDir, streams) ==
  [state |-> "running", logDir |-> logDir, streams |-> streams]

Exited(at) == [state |-> "exited", at |-> at]

(* logger.ts that does not look at PINO_LOG_LEVEL. *)
LoggerInitAnyLevel(e) ==
  Running(IF Truthy(e["PINO_LOG_DIR"]) THEN e["PINO_LOG_DIR"].s
          ELSE <<Word("logs")>>,
          {"pretty"}
            \cup (IF Truthy(e["PINO_LOG_FILE"]) THEN {"logFile"} ELSE {})
            \cup (IF Truthy(e["PINO_ERROR_FILE"]) THEN {"errFile"} ELSE {}))

(* logger.ts, lines 11-51: the log directory (default 'logs'), the log
   level (required, one of pino's), the streams. *)
LoggerInit(e) ==
  LET logDir == IF Truthy(e["PINO_LOG_DIR"]) THEN e["PINO_LOG_DIR"].s
                ELSE <<Word("logs")>>
  IN IF ~Truthy(e["PINO_LOG_LEVEL"]) THEN Exited("PINO_LOG_LEVEL")
     ELSE IF ~IsPinoLevel(e["PINO_LOG_LEVEL"].s) THEN Exited("PINO_LOG_LEVEL")
     ELSE Running(logDir,
                  {"pretty"}
                    \cup (IF Truthy(e["PINO_LOG_FILE"]) THEN {"logFile"} ELSE {})
                    \cup (IF Truthy(e["PINO_ERROR_FILE"]) THEN {"errFile"} ELSE {}))

(* authentication.ts that does not check JWT_ISSUER. *)
AuthenticationInitNoIssuer(e, p) ==
  IF p.state = "exited" THEN p
  ELSE IF ~Truthy(e["JWT_AUDIENCE"]) THEN Exited("JWT_AUDIENCE")
  ELSE IF ~Truthy(e["JWT_HMAC_KEY"]) THEN Exited("JWT_HMAC_KEY")
  ELSE IF ~Truthy(e["JWT_TTL_ACCESS"]) THEN Exited("JWT_TTL_ACCESS")
  ELSE p

(* authentication.ts, lines 24-56, run in the process p the import of the
   logger left. *)
AuthenticationInit(e, p) ==
  IF p.state = "exited" THEN p
  ELSE IF ~Truthy(e["JWT_AUDIENCE"]) THEN Exited("JWT_AUDIENCE")
  ELSE IF ~Truthy(e["JWT_HMAC_KEY"]) THEN Exited("JWT_HMAC_KEY")
  ELSE IF ~Truthy(e["JWT_ISSUER"]) THEN Exited("JWT_ISSUER")
  ELSE IF ~Truthy(e["JWT_TTL_ACCESS"]) THEN Exited("JWT_TTL_ACCESS")
  ELSE p

Startup(e) == AuthenticationInit(e, LoggerInit(e))

InitHost(envs) ==
  /\ env \in envs
  /\ proc = Startup(env)

---------------------------------------------------------------------------
(* clearAuthContext, and getAuthContext on the carrier it worked on.
   carrier is one request/response pair: orig the request as it arrived,
   req the request as the calls so far left it, effect what the response
   tells the client to do with the auth cookie, clears the number of
   clearAuthContext calls, last the last call and what it gave. *)

MaxClears == 2

NoCarrier == [open |-> FALSE]

InitLogout == carrier = NoCarrier

(* jwt.decode(jot): the payload of a string that decodes, whatever its
   signature and its claims say; null for any other string. *)
JwtDecode(jot) ==
  IF ~(Len(jot) = 1 /\ "jwt" \in DOMAIN jot[1])
  THEN Null
  ELSE [t |-> "payload", ptype |-> jot[1].jwt.ptype,
        claims |-> jot[1].jwt.claims]

(* clearAuthContext that returns before it deletes the cookie. *)
ClearAuthContextDeleteLate(req) ==
  IF ~IsString(req.cookie)
  THEN [ret |-> Undefined, req |-> req, effect |-> "none"]
  ELSE [ret |-> JwtDecode(req.cookie.s),
        req |-> [cookie |-> Undefined, authorization |-> req.authorization],
        effect |-> "delete"]

(* clearAuthContext that also drops the Authorization header. *)
ClearAuthContextDroppingHeader(req) ==
  [ret |-> IF ~IsString(req.cookie) THEN Undefined
           ELSE JwtDecode(req.cookie.s),
   req |-> [cookie |-> Undefined, authorization |-> Undefined],
   effect |-> "delete"]

(* clearAuthContext, lines 64-78: deleteCookie takes the cookie out of the
   request and tells the client to drop it. *)
ClearAuthContext(req) ==
  [ret |-> IF ~IsString(req.cookie) THEN Undefined
           ELSE JwtDecode(req.cookie.s),
   req |-> [cookie |-> Undefined, authorization |-> req.authorization],
   effect |-> "delete"]

(* The requests of this part: the auth cookie and a bearer header. *)
CarrierCookies ==
  CookieValues(issued \cup {WrongKeyToken(1), StringPayloadToken})

CarrierHeaders ==
  {Undefined}
    \cup {Str(<<Word("Bearer"), SP, JwtAtom(tok)>>) :
            tok \in issued \cup {WrongIssuerToken}}

OpenCarrier ==
  /\ proc.state = "running"
  /\ ~carrier.open
  /\ \E cookie \in CarrierCookies, authorization \in CarrierHeaders :
       LET req == [cookie |-> cookie, authorization |-> authorization]
       IN carrier' = [open |-> TRUE, orig |-> req, req |-> req,
                      effect |-> "none", clears |-> 0,
                      last |-> [op |-> "none"]]
  /\ UNCHANGED <<authVars, flashVars, hostVars, unitVars>>

CallClearAuthContext ==
  /\ carrier.open
  /\ carrier.clears < MaxClears
  /\ LET r == ClearAuthContext(carrier.req)
     IN carrier' = [carrier EXCEPT
                      !.req = r.req, !.effect = r.effect,
                      !.clears = carrier.clears + 1,
                      !.last = [op |-> "clear", read |-> carrier.req.cookie,
                                ret |-> r.ret]]
  /\ UNCHANGED <<authVars, flashVars, hostVars, unitVars>>

CallGetAuthContext ==
  /\ carrier.open
  /\ \E mode \in Modes :
       carrier' = [carrier EXCEPT
                     !.last = [op |-> "get", mode |-> mode, at |-> now,
                               auth |-> GetAuthContext(carrier.req, mode,
                                                       now, FALSE)]]
  /\ UNCHANGED <<authVars, flashVars, hostVars, unitVars>>

CloseCarrier ==
  /\ carrier.open
  /\ carrier' = NoCarrier
  /\ UNCHANGED <<authVars, flashVars, hostVars, unitVars>>

---------------------------------------------------------------------------
(* The specifications. *)

(* The process configured as in ExampleEnv. *)
Init ==
  /\ InitAuth /\ InitFlash /\ InitUnit /\ InitLogout
  /\ InitHost({ExampleEnv})

(* The process under any configuration. *)
InitAnyEnv ==
  /\ InitAuth /\ InitFlash /\ InitUnit /\ InitLogout
  /\ InitHost(Envs)

(* What the authentication module does for its callers. *)
NextServe == IssueToken \/ ResolveRequest \/ Dispatch \/ Complete

NextLogout ==
  Tick \/ IssueToken \/ OpenCarrier \/ CallClearAuthContext
    \/ CallGetAuthContext \/ CloseCarrier

SpecAuth == Init /\ [][NextAuth]_vars

SpecFlash == Init /\ [][NextFlash]_vars

SpecUnit == Init /\ [][NextUnit]_vars

SpecStartup == InitAnyEnv /\ [][NextServe]_vars

SpecLogout == Init /\ [][NextLogout]_vars

---------------------------------------------------------------------------
(* Claims about the authentication part, checked under SpecAuth. *)

Settled == call.stage \in {"resolved", "done"}

UsableCookie(v) == v.t = "string" /\ v.s # <<>>

BearerHeader(tok) == Str(<<Word("Bearer"), SP, JwtAtom(tok)>>)

Unexpired(tok, clock) == clock < tok.claims.exp

(* C1: the wrapper's outcome is decided by getAuthContext alone: success ->
   the handler is called and the wrapper writes no error response; a
   TokenExpiredError -> 403/E1003; an UnauthenticatedError -> 401/E1002; any
   other failure -> 500/E1001; the handler is never called after a
   failure. *)
C1_OutcomeDecidedByResolution ==
  call.stage = "done" =>
    /\ call.auth.ok => (call.out.invoked /\ call.out.status = 0)
    /\ (~call.auth.ok /\ call.auth.name = "TokenExpiredError") =>
         (call.out.status = 403 /\ call.out.code = "E1003" /\ ~call.out.invoked)
    /\ (~call.auth.ok /\ call.auth.name = "UnauthenticatedError") =>
         (call.out.status = 401 /\ call.out.code = "E1002" /\ ~call.out.invoked)
    /\ (~call.auth.ok
          /\ call.auth.name \notin {"TokenExpiredError", "UnauthenticatedError"}) =>
         (call.out.status = 500 /\ call.out.code = "E1001" /\ ~call.out.invoked)

(* C2: with mode not given, the credential verified is the cookie's value
   when the cookie holds a non-empty string, and the bearer token of the
   Authorization header otherwise; a request with no cookie and the header
   "Bearer <valid token>" resolves to the token's identity. *)
C2_CookieThenHeader ==
  (Settled /\ call.mode = "" /\ ~call.fault) =>
    /\ UsableCookie(call.req.cookie) => call.auth.verified = call.req.cookie
    /\ \A tok \in issued \cup ForeignTokens :
         (~UsableCookie(call.req.cookie)
            /\ call.req.authorization = BearerHeader(tok)) =>
           call.auth.verified = JwtString(tok)
    /\ \A sub \in Subjects, name \in Names, t0 \in 0..MaxTime :
         LET tok == MakeJwt(sub, name, t0)
         IN (tok \in issued /\ Unexpired(tok, call.at)
               /\ call.req.cookie = Undefined
               /\ call.req.authorization = BearerHeader(tok)) =>
              (call.auth.ok /\ call.auth.ctx = [id |-> sub, name |-> name])

C2_Witness ==
  /\ Settled /\ call.mode = "" /\ ~call.fault
  /\ call.req.cookie = Undefined
  /\ \E tok \in issued : call.req.authorization = BearerHeader(tok)
  /\ call.auth.ok

(* C3: when the channels mode allows yield no credential, getAuthContext
   fails with UnauthenticatedError and verifies nothing, whatever the other
   channel carries. *)
C3_NoCredentialUnauthenticated ==
  (Settled /\ ~call.fault
     /\ \/ call.mode = "cookie" /\ ~UsableCookie(call.req.cookie)
        \/ call.mode = "header" /\ ExtractJwt(call.req.authorization) = Null
        \/ call.mode = "" /\ ~UsableCookie(call.req.cookie)
             /\ ExtractJwt(call.req.authorization) = Null) =>
    /\ ~call.auth.ok
    /\ call.auth.name = "UnauthenticatedError"
    /\ call.auth.verified = Undefined

C3_Witness ==
  /\ Settled /\ ~call.fault /\ call.mode = "cookie"
  /\ call.req.cookie = Undefined
  /\ \E tok \in issued :
       /\ call.req.authorization = BearerHeader(tok)
       /\ Unexpired(tok, call.at)
  /\ ~call.auth.ok /\ call.auth.name = "UnauthenticatedError"

(* C4: when a credential was found and verifyJwt rejects, getAuthContext
   fails with the original TokenExpiredError exactly when the rejection is
   one, and with UnauthenticatedError for every other rejection. *)
C4_ExpiryPropagatedOthersMasked ==
  (Settled /\ call.auth.verified # Undefined) =>
    LET v == VerifyJwt(call.auth.verified.s, call.at)
    IN ~v.ok =>
         /\ ~call.auth.ok
         /\ v.name = "TokenExpiredError" =>
              (call.auth.name = "TokenExpiredError" /\ call.auth.message = v.message)
         /\ v.name # "TokenExpiredError" =>
              call.auth.name = "UnauthenticatedError"

C4_Witness ==
  /\ Settled /\ call.auth.verified # Undefined
  /\ \E tok \in issued :
       call.auth.verified = JwtString(tok) /\ ~Unexpired(tok, call.at)
  /\ ~call.auth.ok /\ call.auth.name = "TokenExpiredError"

(* The token of a credential that is one JSON Web Token. *)
IsJwtString(v) == v.t = "string" /\ Len(v.s) = 1 /\ "jwt" \in DOMAIN v.s[1]

WrongKey(tok) == tok.key # JWT_HMAC_KEY

WrongIssuer(tok) == "iss" \in DOMAIN tok.claims /\ tok.claims.iss # JWT_ISSUER

DisjointAudience(tok) ==
  "aud" \in DOMAIN tok.claims /\ tok.claims.aud \cap JWT_AUDIENCE = {}

(* C5 as stated: a token of the wrong key, the wrong issuer or a disjoint
   audience fails with UnauthenticatedError and never as expired, whether
   or not its expiry has passed. *)
C5_BadTokenNeverExpired ==
  (Settled /\ IsJwtString(call.auth.verified)) =>
    LET tok == call.auth.verified.s[1].jwt
    IN (WrongKey(tok) \/ WrongIssuer(tok) \/ DisjointAudience(tok)) =>
         (~call.auth.ok /\ call.auth.name = "UnauthenticatedError")

(* C5 amended: a token of the wrong key always fails with
   UnauthenticatedError; a token of the right key with the wrong issuer or
   a disjoint audience never resolves, and fails with UnauthenticatedError
   until its exp, with TokenExpiredError from its exp on. *)
C5_BadTokenUnauthenticatedUntilExpiry ==
  (Settled /\ IsJwtString(call.auth.verified)) =>
    LET tok == call.auth.verified.s[1].jwt
    IN /\ WrongKey(tok) =>
            (~call.auth.ok /\ call.auth.name = "UnauthenticatedError")
       /\ (~WrongKey(tok) /\ (WrongIssuer(tok) \/ DisjointAudience(tok))) =>
            /\ ~call.auth.ok
            /\ call.auth.name =
                 IF tok.claims.nbf <= call.at /\ call.at >= tok.claims.exp
                 THEN "TokenExpiredError" ELSE "UnauthenticatedError"

C5_Witness ==
  /\ Settled /\ call.auth.verified = JwtString(WrongKeyToken(1))
  /\ call.at > 1
  /\ ~call.auth.ok /\ call.auth.name = "UnauthenticatedError"

(* The token reaches getAuthContext through a channel mode allows. *)
Presented(tok) ==
  \/ call.mode \in {"", "cookie"} /\ call.req.cookie = JwtString(tok)
  \/ /\ call.mode = "header" \/ (call.mode = "" /\ ~UsableCookie(call.req.cookie))
     /\ call.req.authorization = BearerHeader(tok)

(* C6: a token makeJwt(subject, name) signed, presented unexpired through
   an allowed channel, resolves to exactly {id: subject, name: name}. *)
C6_IssuedTokenResolvesToIdentity ==
  (Settled /\ ~call.fault) =>
    \A sub \in Subjects, name \in Names, t0 \in 0..MaxTime :
      LET tok == MakeJwt(sub, name, t0)
      IN (tok \in issued /\ Presented(tok) /\ Unexpired(tok, call.at)) =>
           (call.auth.ok /\ call.auth.ctx = [id |-> sub, name |-> name])

C6_Witness ==
  /\ Settled /\ ~call.fault
  /\ MakeJwt("u1", "", call.at) \in issued
  /\ call.mode = "header"
  /\ call.req.authorization = BearerHeader(MakeJwt("u1", "", call.at))
  /\ call.auth.ok /\ call.auth.ctx = [id |-> "u1", name |-> ""]

(* C7, the calls: a token signed at t0 resolves in every call before
   t0 + JWT_TTL_ACCESS and fails with TokenExpiredError in every call after
   it. *)
C7_Calls ==
  (Settled /\ ~call.fault) =>
    \A tok \in issued :
      LET t0 == tok.claims.iat
      IN Presented(tok) =>
           /\ call.at < t0 + JWT_TTL_ACCESS => call.auth.ok
           /\ call.at > t0 + JWT_TTL_ACCESS =>
                (~call.auth.ok /\ call.auth.name = "TokenExpiredError")

(* C7, the steps: when the clock moves, a signed token that getAuthContext
   would refuse as expired before the step is not resolved by it after the
   step. *)
C7_Step ==
  now' # now =>
    \A tok \in issued :
      LET req == [cookie |-> JwtString(tok), authorization |-> Undefined]
      IN GetAuthContext(req, "cookie", now, FALSE).name = "TokenExpiredError" =>
           ~GetAuthContext(req, "cookie", now', FALSE).ok

(* C7: a token makeJwt signed at t0 resolves before t0 + JWT_TTL_ACCESS,
   fails as expired after it, and once it has failed as expired it never
   resolves again. *)
C7_TokenLifetime == []C7_Calls /\ [][C7_Step]_vars

C7_Witness ==
  /\ Settled /\ ~call.fault
  /\ \E tok \in issued :
       /\ Presented(tok)
       /\ call.at > tok.claims.iat + JWT_TTL_ACCESS
       /\ ~call.auth.ok /\ call.auth.name = "TokenExpiredError"

---------------------------------------------------------------------------
(* Claims about the flash cookie, checked under SpecFlash. *)

(* C8 as stated: on one carrier, getFlashCookie right after
   setFlashCookie(msg, variant) returns {message: msg, variant: variant},
   and a getFlashCookie right after a getFlashCookie returns null. *)
C8_WriteReadThenNull ==
  \A r \in Pairs :
    trail[r].last.op = "get" =>
      /\ trail[r].prev.op = "set" =>
           trail[r].last.ret =
             FlashMessage(trail[r].prev.message, trail[r].prev.variant)
      /\ trail[r].prev.op = "get" => trail[r].last.ret = Null

(* C9: after every getFlashCookie the flash cookie is gone from the carrier,
   whatever it held, and the call returns null exactly when it read no
   string. *)
C9_AlwaysDeleted ==
  \A r \in Pairs :
    trail[r].last.op = "get" =>
      /\ reqs[r].cookie = Undefined
      /\ reqs[r].effect.op = "delete"
      /\ (trail[r].last.ret = Null) <=> ~IsString(trail[r].last.read)

C9_Witness ==
  \E r \in Pairs :
    /\ trail[r].last.op = "get"
    /\ trail[r].last.read = Str(<<"a", "|", "|", "z">>)
    /\ trail[r].last.ret = FlashMessage(<<"a">>, PRIMARY)
    /\ reqs[r].cookie = Undefined

(* C10 as stated: whatever the interleaving of the page requests, at most
   one getFlashCookie call returns the entry setFlashCookie wrote, until a
   new entry is written. *)
C10_ShownAtMostOnce == shown <= 1

(* C10 amended: as long as no page request is sent while another is being
   served, at most one getFlashCookie call returns the entry setFlashCookie
   wrote, until a new entry is written. *)
C10_ShownAtMostOnceInTurn == ~overlapped => shown <= 1

C10_Witness ==
  /\ ~overlapped
  /\ shown = 1
  /\ jar = Undefined
  /\ \E r \in Pairs :
       /\ trail[r].last.op = "get" /\ trail[r].last.ret = Null
       /\ trail[r].prev.op = "get"

---------------------------------------------------------------------------
(* Claims about the helpers, checked under SpecUnit. *)

ContainsSep(m) == \E i \in 1..(Len(m) - 1) : SubSeq(m, i, i + 1) = SEP

(* The segments of a stored string, as String.prototype.split gives them. *)
Segments(value) == Split(value, SEP)

(* The part of value before its leftmost separator. *)
FirstSegment(value) ==
  LET i == CHOOSE k \in 1..(Len(value) - 1) :
             /\ SubSeq(value, k, k + 1) = SEP
             /\ \A j \in 1..(k - 1) : SubSeq(value, j, j + 1) # SEP
  IN SubSeq(value, 1, i - 1)

LastSegment(value) == Segments(value)[Len(Segments(value))]

(* C11 as stated: parseFlashString(makeFlashMesage(m, v)) is
   {message: m, variant: v} for each of the 8 variants v and every m that
   does not contain '||'. *)
C11_RoundTrip ==
  (/\ unit.fn = "parseFlashString"
   /\ unit.of.fn = "makeFlashMesage"
   /\ unit.of.variant # Undefined
   /\ ~ContainsSep(unit.of.message)) =>
    unit.ret = FlashMessage(unit.of.message, unit.of.variant.s)

(* C12: parseFlashString returns an entry whose variant is one of the 8;
   without a separator the entry is {the whole input, 'primary'}; with a
   separator and a last segment that is not a variant it is {the first
   segment, 'primary'}; with a last segment that is a variant it is {the
   first segment, that variant}. *)
C12_ParseAlwaysUsable ==
  unit.fn = "parseFlashString" =>
    /\ DOMAIN unit.ret = {"message", "variant"}
    /\ unit.ret.variant \in ALERT_VARIANTS
    /\ ~ContainsSep(unit.value) => unit.ret = FlashMessage(unit.value, PRIMARY)
    /\ (ContainsSep(unit.value) /\ LastSegment(unit.value) \notin ALERT_VARIANTS) =>
         unit.ret = FlashMessage(FirstSegment(unit.value), PRIMARY)
    /\ (ContainsSep(unit.value) /\ LastSegment(unit.value) \in ALERT_VARIANTS) =>
         unit.ret = FlashMessage(FirstSegment(unit.value), LastSegment(unit.value))

C12_Witness ==
  /\ unit.fn = "parseFlashString"
  /\ unit.value = <<"a">> \o SEP \o <<"z">> \o SEP \o INFO
  /\ unit.ret = FlashMessage(<<"a">>, INFO)

(* The runs of non-blank characters of a string. *)
WhitespaceTokens(s) == SelectSeq(s, LAMBDA a : ~IsBlank(a))

(* The string starts with 'bearer ' in some letter case. *)
HasBearerPrefix(s) ==
  /\ Len(s) >= 2
  /\ s[1] \in {Word("bearer"), Word("Bearer"), Word("BEARER")}
  /\ s[2] = SP

(* C16 as stated: extractJwt returns the second whitespace-separated token
   of a header that starts with 'bearer ' in any letter case, whatever the
   amount of whitespace before the token, and null when the header is
   absent, empty, without the prefix or without a second token. *)
C16_SecondToken ==
  unit.fn = "extractJwt" =>
    IF /\ IsString(unit.bearer)
       /\ HasBearerPrefix(unit.bearer.s)
       /\ Len(WhitespaceTokens(unit.bearer.s)) >= 2
    THEN unit.ret = Str(<<WhitespaceTokens(unit.bearer.s)[2]>>)
    ELSE unit.ret = Null

---------------------------------------------------------------------------
(* Claims about the start of the process, checked under SpecStartup. *)

NothingServed == issued = {} /\ call = Idle

(* C13: when one of JWT_HMAC_KEY, JWT_ISSUER, JWT_AUDIENCE, JWT_TTL_ACCESS
   is not set or empty, the process has exited in the initialization and no
   request is resolved, no token issued, no handler dispatched. *)
C13_MissingAuthSettingHalts ==
  (\E n \in JwtSettings : ~Truthy(env[n])) =>
    (proc.state = "exited" /\ NothingServed)

C13_Witness ==
  /\ env = [ExampleEnv EXCEPT !.JWT_ISSUER = Str(<<>>)]
  /\ proc = Exited("JWT_ISSUER")
  /\ NothingServed

(* C14 as stated: when the log level or one of the log paths (directory,
   log file, error file) is not set, the process has exited and serves no
   request. *)
C14_AllLoggingRequired ==
  (\E n \in LogSettings : env[n] = Undefined) =>
    (proc.state = "exited" /\ NothingServed)

(* C14, amended: the process has exited and serves nothing when the log
   level is not set, empty or not one of pino's levels; with a log level
   and the four authentication settings it runs, whatever the log paths:
   the directory is 'logs' when none is set, and a log file or error file
   that is not set leaves its stream out. *)
C14_LogLevelRequired ==
  /\ (~Truthy(env.PINO_LOG_LEVEL) \/ ~IsPinoLevel(env.PINO_LOG_LEVEL.s)) =>
       (proc.state = "exited" /\ NothingServed)
  /\ (/\ Truthy(env.PINO_LOG_LEVEL) /\ IsPinoLevel(env.PINO_LOG_LEVEL.s)
      /\ \A n \in JwtSettings : Truthy(env[n])) =>
       /\ proc.state = "running"
       /\ env.PINO_LOG_DIR = Undefined => proc.logDir = <<Word("logs")>>
       /\ "logFile" \in proc.streams <=> env.PINO_LOG_FILE # Undefined
       /\ "errFile" \in proc.streams <=> env.PINO_ERROR_FILE # Undefined

C14_Witness ==
  /\ env.PINO_LOG_DIR = Undefined
  /\ env.PINO_LOG_FILE = Undefined
  /\ env.PINO_ERROR_FILE = Undefined
  /\ proc.state = "running"
  /\ proc.streams = {"pretty"}
  /\ call.stage = "done"
  /\ call.auth.ok

---------------------------------------------------------------------------
(* Further claims about getAuthContext and withAuthHandler, checked under
   SpecAuth. *)

(* C17: with mode not given and a non-empty string in the auth cookie, a
   cookie token that fails verification fails the request with the cookie
   token's outcome (TokenExpiredError when it has expired,
   UnauthenticatedError otherwise), whatever the Authorization header
   carries; with no cookie or an empty one, a bearer token that verifies
   resolves the request. *)
C17_InvalidCookieNotRescued ==
  (Settled /\ call.mode = "" /\ ~call.fault) =>
    /\ UsableCookie(call.req.cookie) =>
         LET v == VerifyJwt(call.req.cookie.s, call.at)
         IN ~v.ok =>
              /\ ~call.auth.ok
              /\ call.auth.verified = call.req.cookie
              /\ call.auth.name = IF v.name = "TokenExpiredError"
                                  THEN "TokenExpiredError"
                                  ELSE "UnauthenticatedError"
    /\ call.req.cookie \in {Undefined, Str(<<>>)} =>
         \A tok \in issued :
           (call.req.authorization = BearerHeader(tok)
              /\ Unexpired(tok, call.at)) => call.auth.ok

C17_Witness ==
  /\ Settled /\ call.mode = "" /\ ~call.fault
  /\ call.req.cookie = JwtString(WrongKeyToken(FarFuture))
  /\ \E tok \in issued :
       /\ call.req.authorization = BearerHeader(tok)
       /\ Unexpired(tok, call.at)
  /\ ~call.auth.ok
  /\ call.auth.name = "UnauthenticatedError"

(* C18 as stated: the wrapper writes a 401, 403 or 500 response only when
   getAuthContext failed, and then exactly one; after getAuthContext
   resolved it writes none, whatever the handler throws or rejects with. *)
C18_HandlerFailuresNotConverted ==
  call.stage = "done" =>
    /\ call.auth.ok => (call.out.invoked /\ call.out.status = 0
                          /\ call.out.code = "")
    /\ ~call.auth.ok => (~call.out.invoked
                           /\ call.out.status \in {401, 403, 500})

---------------------------------------------------------------------------
(* Claims about clearAuthContext, checked under SpecLogout. *)

CarrierTokens == issued \cup ForeignTokens

(* C15: after clearAuthContext the auth cookie is gone from the carrier
   and the response deletes it, whatever the cookie held; the call returns
   nothing when the cookie held no string, the payload of the token,
   unverified, when it held a token, and null (no payload, no error) when
   it held a string that does not decode. *)
C15_ClearAlwaysDeletes ==
  (carrier.open /\ carrier.last.op = "clear") =>
    /\ carrier.req.cookie = Undefined
    /\ carrier.effect = "delete"
    /\ ~IsString(carrier.last.read) => carrier.last.ret = Undefined
    /\ \A tok \in CarrierTokens :
         carrier.last.read = JwtString(tok) =>
           (carrier.last.ret.t = "payload"
              /\ carrier.last.ret.claims = tok.claims)
    /\ (IsString(carrier.last.read)
          /\ carrier.last.read \notin {JwtString(tok) : tok \in CarrierTokens}) =>
         carrier.last.ret = Null

C15_Witness ==
  /\ carrier.open /\ carrier.last.op = "clear"
  /\ carrier.orig.cookie = JwtString(WrongKeyToken(1))
  /\ carrier.last.read = JwtString(WrongKeyToken(1))
  /\ now > 1
  /\ carrier.last.ret.t = "payload"
  /\ carrier.req.cookie = Undefined

(* C19: after any number of clearAuthContext calls on a carrier, the
   Authorization header is as it arrived and getAuthContext in mode
   'header' gives what it gives on the request as it arrived: a signed
   token in the header resolves until its expiry; getAuthContext in mode
   'cookie' fails with UnauthenticatedError. *)
C19_LogoutLeavesTokenValid ==
  (carrier.open /\ carrier.clears >= 1) =>
    /\ carrier.req.authorization = carrier.orig.authorization
    /\ carrier.last.op = "get" =>
         /\ carrier.last.mode = "header" =>
              /\ carrier.last.auth =
                   GetAuthContext(carrier.orig, "header", carrier.last.at, FALSE)
              /\ \A tok \in issued :
                   (carrier.orig.authorization = BearerHeader(tok)
                      /\ Unexpired(tok, carrier.last.at)) =>
                     carrier.last.auth.ok
         /\ carrier.last.mode = "cookie" =>
              (~carrier.last.auth.ok
                 /\ carrier.last.auth.name = "UnauthenticatedError")

C19_Witness ==
  /\ carrier.open /\ carrier.clears = MaxClears
  /\ carrier.last.op = "get" /\ carrier.last.mode = "header"
  /\ carrier.last.auth.ok
  /\ \E tok \in issued :
       /\ carrier.orig.cookie = JwtString(tok)
       /\ carrier.orig.authorization = BearerHeader(tok)

====
